---- MODULE Spec2Model ----
(***************************************************************************)
(* load_data (src/load_data/src/main.rs): loads byte ranges ("chunks") of  *)
(* files in parallel, decodes them as int8 values or utf8 strings and      *)
(* concatenates them per job.                                              *)
(*                                                                         *)
(* Representation.  A command-line argument (a Rust String) is a sequence  *)
(* of one-character strings; a byte is a number in 0..255; a Vec is a      *)
(* sequence; a Rust String is the sequence of its (validated) utf8 bytes;  *)
(* an io::Result is a record with the field ok.                            *)
(***************************************************************************)
EXTENDS Integers, Sequences, FiniteSets, TLC

\* ------------------------------------------------------------------------
\* Bounds of the model
\* ------------------------------------------------------------------------

\* Most chunks of the single job of Spec.
MaxChunks == 2

\* Most jobs on the command line of SpecJobs.
MaxJobs == 2

\* Longest buffer of sample bytes decoded in SpecDecode.
MaxBytes == 4
MaxStrings == 6
MaxArgs == 7

\* ------------------------------------------------------------------------
\* The environment: the files on disk
\* ------------------------------------------------------------------------

\* Path "a" holds the three bytes of "A" followed by U+00E9 (0xC3 0xA9), path
\* "b" holds "z"; every other path (here "m") does not exist.
FS == (<<"a">> :> <<65, 195, 169>>) @@ (<<"b">> :> <<122>>)

\* ------------------------------------------------------------------------
\* Values
\* ------------------------------------------------------------------------

T_int8 == <<"i", "n", "t", "8">>

T_utf8 == <<"u", "t", "f", "8">>

NoErr == [kind |-> "none"]

NoRes == [tag |-> "none"]

NoJob == [data_type |-> "none", chunks |-> <<>>]

NoPanic == [site |-> "none"]

Ok(v) == [ok |-> TRUE, val |-> v]

Err(e) == [ok |-> FALSE, err |-> e]

\* bytes[from .. to) with 0-based offsets, as far as the bytes reach.
Slice(bytes, from, to) ==
    IF from >= Len(bytes) \/ to <= from THEN <<>>
    ELSE SubSeq(bytes, from + 1, IF to < Len(bytes) THEN to ELSE Len(bytes))

\* ------------------------------------------------------------------------
\* parse_args
\* ------------------------------------------------------------------------

DigitVal == ("0" :> 0) @@ ("1" :> 1) @@ ("2" :> 2) @@ ("3" :> 3) @@ ("4" :> 4)
            @@ ("5" :> 5) @@ ("6" :> 6) @@ ("7" :> 7) @@ ("8" :> 8) @@ ("9" :> 9)

RECURSIVE DigitsValue(_, _)
\* The value of a run of decimal digits, most significant first; -1 when a
\* character is not a digit.
DigitsValue(s, acc) ==
    IF s = <<>> THEN acc
    ELSE IF Head(s) \notin DOMAIN DigitVal THEN -1
    ELSE DigitsValue(Tail(s), 10 * acc + DigitVal[Head(s)])

\* str::parse::<u64>: an optional '+', then one or more decimal digits.  (The
\* arguments of the model have few digits, far below u64::MAX.)
ParseU64(s) ==
    LET digits == IF s # <<>> /\ Head(s) = "+" THEN Tail(s) ELSE s
        v == DigitsValue(digits, 0)
    IN IF digits = <<>> \/ v < 0 THEN Err([kind |-> "ParseIntError"]) ELSE Ok(v)

RECURSIVE ParseChunks(_, _, _)
\* The inner loop of parse_args from 0-based argument index i: the chunks
\* pushed and the index reached, or the panic of an unwrap.
ParseChunks(args, i, chunks) ==
    IF i + 3 <= Len(args) /\ args[i + 1] # T_int8 /\ args[i + 1] # T_utf8
    THEN LET s == ParseU64(args[i + 2])
             e == ParseU64(args[i + 3])
         IN IF ~s.ok \/ ~e.ok
            THEN [panic |-> TRUE, site |-> "parse offset", i |-> i, chunks |-> chunks]
            ELSE ParseChunks(args, i + 3,
                     Append(chunks, [filepath |-> args[i + 1],
                                     start_idx |-> s.val, end_idx |-> e.val]))
    ELSE [panic |-> FALSE, site |-> "none", i |-> i, chunks |-> chunks]

RECURSIVE ParseJobsSkipUnknown(_, _, _)
\* Faulty variant of ParseJobs: an argument that is no type where a type is
\* expected is passed over.
ParseJobsSkipUnknown(args, i, result) ==
    IF ~(i < Len(args)) THEN [panic |-> FALSE, site |-> "none", jobs |-> result]
    ELSE IF args[i + 1] # T_int8 /\ args[i + 1] # T_utf8
    THEN ParseJobsSkipUnknown(args, i + 1, result)
    ELSE LET data_type == IF args[i + 1] = T_int8 THEN "Int8" ELSE "Utf8Str"
             cs == ParseChunks(args, i + 1, <<>>)
         IN IF cs.panic THEN [panic |-> TRUE, site |-> cs.site, jobs |-> result]
            ELSE ParseJobsSkipUnknown(args, cs.i,
                     Append(result, [data_type |-> data_type, chunks |-> cs.chunks]))

RECURSIVE ParseJobs(_, _, _)
\* The outer loop of parse_args from 0-based argument index i.
ParseJobs(args, i, result) ==
    IF ~(i < Len(args)) THEN [panic |-> FALSE, site |-> "none", jobs |-> result]
    ELSE IF args[i + 1] # T_int8 /\ args[i + 1] # T_utf8
    THEN [panic |-> TRUE, site |-> "Invalid data type", jobs |-> result]
    ELSE LET data_type == IF args[i + 1] = T_int8 THEN "Int8" ELSE "Utf8Str"
             cs == ParseChunks(args, i + 1, <<>>)
         IN IF cs.panic THEN [panic |-> TRUE, site |-> cs.site, jobs |-> result]
            ELSE ParseJobs(args, cs.i,
                     Append(result, [data_type |-> data_type, chunks |-> cs.chunks]))

\* parse_args on the process's arguments (args[1] is the program name).
parse_args(args) == ParseJobs(args, 1, <<>>)

\* ------------------------------------------------------------------------
\* load_chunk: buffer length, read, decode
\* ------------------------------------------------------------------------

Builds == {"debug", "release"}

\* Faulty variant of BufLen: the range taken as inclusive of end_idx.
BufLenInclusive(chunk, build) ==
    IF chunk.end_idx >= chunk.start_idx
    THEN [panic |-> FALSE, len |-> chunk.end_idx - chunk.start_idx + 1]
    ELSE [panic |-> TRUE, site |-> "attempt to subtract with overflow"]

\* (chunk.end_idx - chunk.start_idx) as usize and the allocation of the buffer.
\* An inverted range underflows the u64 subtraction: a debug build panics at
\* the subtraction; a release build wraps to 2^64 - (start - end), a length
\* above isize::MAX, and the allocation panics.
BufLen(chunk, build) ==
    IF chunk.end_idx >= chunk.start_idx
    THEN [panic |-> FALSE, len |-> chunk.end_idx - chunk.start_idx]
    ELSE IF build = "debug"
    THEN [panic |-> TRUE, site |-> "attempt to subtract with overflow"]
    ELSE [panic |-> TRUE, site |-> "capacity overflow"]

\* One read(2) on a regular file: up to n bytes from 0-based position pos.
ReadSyscall(bytes, pos, n) == Slice(bytes, pos, pos + n)

\* Faulty variant of Cast_i8: the sign bit taken one value late.
Cast_i8_Late(b) == IF b <= 128 THEN b ELSE b - 256

\* b as i8
Cast_i8(b) == IF b < 128 THEN b ELSE b - 256

IsCont(b) == b >= 128 /\ b <= 191

\* Width of the utf8 sequence a first byte announces; 0 for a byte that
\* cannot start one.
Utf8Width(b) ==
    IF b < 128 THEN 1
    ELSE IF b >= 194 /\ b <= 223 THEN 2
    ELSE IF b >= 224 /\ b <= 239 THEN 3
    ELSE IF b >= 240 /\ b <= 244 THEN 4
    ELSE 0

\* Whether second may follow first in a 3- or 4-byte sequence.
Utf8SecondOk(first, second) ==
    IF first = 224 THEN second >= 160 /\ second <= 191
    ELSE IF first = 237 THEN second >= 128 /\ second <= 159
    ELSE IF first = 240 THEN second >= 144 /\ second <= 191
    ELSE IF first = 244 THEN second >= 128 /\ second <= 143
    ELSE IsCont(second)

RECURSIVE Utf8Validate(_, _)
\* core::str::from_utf8 from 0-based index i: ok, or the Utf8Error
\* (valid_up_to; error_len, 0 standing for None, an unexpected end).
Utf8Validate(b, i) ==
    IF i >= Len(b) THEN [ok |-> TRUE, valid_up_to |-> i, error_len |-> 0]
    ELSE LET first == b[i + 1]
             wd == Utf8Width(first)
             bad(n) == [ok |-> FALSE, valid_up_to |-> i, error_len |-> n]
         IN IF wd = 0 THEN bad(1)
            ELSE IF wd = 1 THEN Utf8Validate(b, i + 1)
            ELSE IF i + 1 >= Len(b) THEN bad(0)
            ELSE IF wd = 2
                 THEN IF IsCont(b[i + 2]) THEN Utf8Validate(b, i + 2) ELSE bad(1)
            ELSE IF ~Utf8SecondOk(first, b[i + 2]) THEN bad(1)
            ELSE IF i + 2 >= Len(b) THEN bad(0)
            ELSE IF ~IsCont(b[i + 3]) THEN bad(2)
            ELSE IF wd = 3 THEN Utf8Validate(b, i + 3)
            ELSE IF i + 3 >= Len(b) THEN bad(0)
            ELSE IF ~IsCont(b[i + 4]) THEN bad(3)
            ELSE Utf8Validate(b, i + 4)

\* String::from_utf8(buffer).map_err(io::Error::new(InvalidData, e))
FromUtf8(buffer) ==
    LET v == Utf8Validate(buffer, 0)
    IN IF v.ok THEN Ok(buffer)
       ELSE Err([kind |-> "InvalidData", valid_up_to |-> v.valid_up_to,
                 error_len |-> v.error_len])

\* Faulty variant of DecodeChunk: an empty text chunk yields no string.
DecodeChunkSkipEmpty(buffer, data_type) ==
    IF data_type = "Int8"
    THEN Ok([tag |-> "Int8", vec |-> [k \in 1..Len(buffer) |-> Cast_i8(buffer[k])]])
    ELSE LET s == FromUtf8(buffer)
         IN IF ~s.ok THEN s
            ELSE Ok([tag |-> "Utf8Str", vec |-> IF s.val = <<>> THEN <<>> ELSE <<s.val>>])

\* Faulty variant of DecodeChunk: the buffer decoded as bytes whatever the
\* declared type.
DecodeChunkAlwaysInt8(buffer, data_type) ==
    Ok([tag |-> "Int8", vec |-> [k \in 1..Len(buffer) |-> Cast_i8(buffer[k])]])

\* The match of load_chunk on a filled buffer.
DecodeChunk(buffer, data_type) ==
    IF data_type = "Int8"
    THEN Ok([tag |-> "Int8", vec |-> [k \in 1..Len(buffer) |-> Cast_i8(buffer[k])]])
    ELSE LET s == FromUtf8(buffer)
         IN IF s.ok THEN Ok([tag |-> "Utf8Str", vec |-> <<s.val>>]) ELSE s

\* The error of read_exact when a read returns no byte.
UnexpectedEof == [kind |-> "UnexpectedEof", message |-> "failed to fill whole buffer"]

\* ------------------------------------------------------------------------
\* load_arrays: the registry, the parallel collect, the concatenation
\* ------------------------------------------------------------------------

\* The HashSet of the chunks' file paths.
DistinctPaths(chunks) == {chunks[k].filepath : k \in 1..Len(chunks)}

\* Faulty variant of OpenOrders: one File::open per chunk, no HashSet.
OpenOrdersPerChunk(chunks) == {[k \in 1..Len(chunks) |-> chunks[k].filepath]}

\* The orders in which the HashSet's into_iter() may yield the paths to
\* File::open: each distinct path once, in an arbitrary order.
OpenOrders(chunks) ==
    LET ps == DistinctPaths(chunks)
    IN { s \in [1..Cardinality(ps) -> ps] : \A p \in ps : \E k \in DOMAIN s : s[k] = p }

\* Faulty variant of SaveError: the error of a failed chunk is not kept.
SaveErrorLost(saved, e) == saved

\* rayon's collect into io::Result: the first error to arrive is kept.
SaveError(saved, e) == IF saved = NoErr THEN e ELSE saved

RECURSIVE ConcatLoaded(_, _)
\* flat_map over the per-chunk results in index order: the vec of a result
\* of the job's variant, nothing for a result of the other variant.
ConcatLoaded(data_type, loaded) ==
    IF loaded = <<>> THEN <<>>
    ELSE (IF Head(loaded).tag = data_type THEN Head(loaded).vec ELSE <<>>)
         \o ConcatLoaded(data_type, Tail(loaded))

RECURSIVE Collected(_)
\* The Vec rayon's collect builds: the Ok items, in index order.
Collected(ws) ==
    IF ws = <<>> THEN <<>>
    ELSE (IF Head(ws).pc = "ok" THEN <<Head(ws).res>> ELSE <<>>) \o Collected(Tail(ws))

\* Faulty variant of LoadArraysResult: a job without results is an error.
LoadArraysResultNonEmpty(data_type, ws, saved) ==
    IF saved # NoErr THEN Err(saved)
    ELSE IF Collected(ws) = <<>> THEN Err([kind |-> "InvalidInput"])
    ELSE Ok([tag |-> data_type, vec |-> ConcatLoaded(data_type, Collected(ws))])

\* What load_arrays returns once every chunk is done or skipped: the kept
\* error through the ?, else the concatenation of the collected results.
LoadArraysResult(data_type, ws, saved) ==
    IF saved # NoErr THEN Err(saved)
    ELSE Ok([tag |-> data_type, vec |-> ConcatLoaded(data_type, Collected(ws))])

\* ------------------------------------------------------------------------
\* main: the report of one job
\* ------------------------------------------------------------------------

Min(x, y) == IF x < y THEN x ELSE y

\* Faulty variant of Report: the indicator printed from five strings on.
ReportIndicatorAtFive(data) ==
    IF data.tag = "Int8"
    THEN <<[line |-> "Loaded int8 values", n |-> Len(data.vec)]>>
    ELSE <<[line |-> "Loaded strings", n |-> Len(data.vec)]>>
         \o [k \in 1..Min(Len(data.vec), 5) |->
                [line |-> "String", i |-> k - 1, s |-> data.vec[k]]]
         \o (IF Len(data.vec) >= 5 THEN <<[line |-> "..."]>> ELSE <<>>)

\* The lines main prints for a loaded array.
Report(data) ==
    IF data.tag = "Int8"
    THEN <<[line |-> "Loaded int8 values", n |-> Len(data.vec)]>>
    ELSE <<[line |-> "Loaded strings", n |-> Len(data.vec)]>>
         \o [k \in 1..Min(Len(data.vec), 5) |->
                [line |-> "String", i |-> k - 1, s |-> data.vec[k]]]
         \o (IF Len(data.vec) > 5 THEN <<[line |-> "..."]>> ELSE <<>>)

\* ------------------------------------------------------------------------
\* State
\* ------------------------------------------------------------------------

VARIABLES
    args,        \* env::args()
    pc,          \* where main is
    jobs,        \* the jobs the for loop of main has not taken yet
    cur,         \* the job load_arrays is working on
    to_open,     \* paths the HashSet's iterator has yet to yield
    file_map,    \* path -> the open file ([pos]: the cursor try_clone shares)
    opens,       \* path -> File::open calls of the current job
    w,           \* per chunk: the parallel map's progress and result
    saved_error, \* the error rayon's collect has kept
    result,      \* what load_arrays returned
    stdout,      \* the lines printed
    panic,       \* the panic that ended the process
    started,     \* number of jobs main has passed to load_arrays
    input,       \* argument of a function applied on its own (SpecDecode)
    output       \* what the function returned

vars == <<args, pc, jobs, cur, to_open, file_map, opens, w, saved_error,
          result, stdout, panic, started, input, output>>

EmptyMap == <<>>

NChunks == Len(cur.chunks)

\* Faulty variant of Terminal: the collect does not wait for the chunks in
\* flight once an error is kept.
TerminalEarly(i) == w[i].pc \in {"ok", "err", "skipped"} \/ saved_error # NoErr

Terminal(i) == w[i].pc \in {"ok", "err", "skipped"}

\* ------------------------------------------------------------------------
\* Command lines
\* ------------------------------------------------------------------------

SeqsUpTo(S, n) == UNION {[1..k -> S] : k \in 0..n}

RECURSIVE Flatten(_)
Flatten(ss) == IF ss = <<>> THEN <<>> ELSE Head(ss) \o Flatten(Tail(ss))

Prog == <<"l", "o", "a", "d">>

\* Chunk triples (path, start, end) as written on the command line.
ChunkArgs ==
    { <<<<"a">>, <<"0">>, <<"1">>>>,      \* "A"
      <<<<"a">>, <<"1">>, <<"3">>>>,      \* U+00E9
      <<<<"a">>, <<"1">>, <<"2">>>>,      \* a truncated utf8 sequence
      <<<<"a">>, <<"0">>, <<"0">>>>,      \* zero length
      <<<<"a">>, <<"2">>, <<"4">>>>,      \* past the end of the file
      <<<<"a">>, <<"2">>, <<"1">>>>,      \* inverted
      <<<<"b">>, <<"0">>, <<"1">>>>,      \* "z"
      <<<<"m">>, <<"0">>, <<"1">>>>,      \* no such file
      <<<<"a">>, <<"x">>, <<"1">>>> }     \* offset not a number

TypeArgs == {T_int8, T_utf8, <<"f", "3", "2">>}

\* One job of up to MaxChunks chunks.
SingleJobArgs ==
    { <<Prog, t>> \o Flatten(cs) : t \in TypeArgs, cs \in SeqsUpTo(ChunkArgs, MaxChunks) }

\* The jobs of the multi-job command lines.
JobArgs ==
    { <<t>> \o Flatten(cs) :
        t \in {T_int8, T_utf8},
        cs \in { <<>>,
                 << <<<<"a">>, <<"0">>, <<"1">>>> >>,
                 << <<<<"a">>, <<"1">>, <<"2">>>> >>,
                 << <<<<"a">>, <<"2">>, <<"4">>>>, <<<<"b">>, <<"0">>, <<"1">>>> >>,
                 << <<<<"m">>, <<"0">>, <<"1">>>> >> } }

MultiJobArgs == { <<Prog>> \o Flatten(js) : js \in SeqsUpTo(JobArgs, MaxJobs) }

\* ------------------------------------------------------------------------
\* Initial states
\* ------------------------------------------------------------------------

InitRest ==
    /\ pc = "start"
    /\ jobs = <<>>
    /\ cur = NoJob
    /\ to_open = <<>>
    /\ file_map = EmptyMap
    /\ opens = EmptyMap
    /\ w = <<>>
    /\ saved_error = NoErr
    /\ result = NoRes
    /\ stdout = <<>>
    /\ panic = NoPanic
    /\ started = 0
    /\ input = <<>>
    /\ output = NoRes

Init == args \in SingleJobArgs /\ InitRest

InitJobs == args \in MultiJobArgs /\ InitRest

\* ------------------------------------------------------------------------
\* Actions
\* ------------------------------------------------------------------------

\* main: let args = parse_args();
ParseArgs ==
    /\ pc = "start"
    /\ LET r == parse_args(args)
       IN IF r.panic
          THEN /\ pc' = "panicked"
               /\ panic' = [site |-> r.site]
               /\ jobs' = jobs
          ELSE /\ pc' = "loop"
               /\ jobs' = r.jobs
               /\ panic' = panic
    /\ UNCHANGED <<input, output, args, cur, to_open, file_map, opens, w, saved_error, result,
                   stdout, started>>

\* Faulty variant of ForNext: the loop takes the jobs from the back.
ForNextLast ==
    /\ pc = "loop"
    /\ IF jobs = <<>>
       THEN /\ pc' = "exit_ok"
            /\ UNCHANGED <<jobs, cur, to_open, opens, started>>
       ELSE /\ pc' = "open"
            /\ cur' = jobs[Len(jobs)]
            /\ jobs' = SubSeq(jobs, 1, Len(jobs) - 1)
            /\ to_open' \in OpenOrders(jobs[Len(jobs)].chunks)
            /\ opens' = EmptyMap
            /\ started' = started + 1
    /\ UNCHANGED <<input, output, args, file_map, w, saved_error, result, stdout, panic>>

\* main: the for loop takes the next job and calls load_arrays, which
\* collects the HashSet of paths; with no job left main returns Ok(()).
ForNext ==
    /\ pc = "loop"
    /\ IF jobs = <<>>
       THEN /\ pc' = "exit_ok"
            /\ UNCHANGED <<jobs, cur, to_open, opens, started>>
       ELSE /\ pc' = "open"
            /\ cur' = Head(jobs)
            /\ jobs' = Tail(jobs)
            /\ to_open' \in OpenOrders(Head(jobs).chunks)
            /\ opens' = EmptyMap
            /\ started' = started + 1
    /\ UNCHANGED <<input, output, args, file_map, w, saved_error, result, stdout, panic>>

\* load_arrays: File::open(filepath).unwrap() on the next path the iterator
\* yields; the pair is inserted into the HashMap.
OpenFile ==
    /\ pc = "open"
    /\ to_open # <<>>
    /\ LET p == Head(to_open) IN
        /\ to_open' = Tail(to_open)
        /\ opens' = IF p \in DOMAIN opens THEN [opens EXCEPT ![p] = @ + 1]
                     ELSE (p :> 1) @@ opens
        /\ IF p \in DOMAIN FS
           THEN /\ file_map' = (p :> [pos |-> 0]) @@ file_map
                /\ UNCHANGED <<pc, panic>>
           ELSE /\ pc' = "panicked"
                /\ panic' = [site |-> "File::open unwrap", kind |-> "NotFound"]
                /\ file_map' = file_map
    /\ UNCHANGED <<input, output, args, jobs, cur, w, saved_error, result, stdout, started>>

\* load_arrays: the file map is complete; chunks.into_par_iter() starts.
Dispatch ==
    /\ pc = "open"
    /\ to_open = <<>>
    /\ pc' = "par"
    /\ w' = [k \in 1..NChunks |-> [pc |-> "todo", len |-> 0, buf |-> <<>>, res |-> NoRes]]
    /\ saved_error' = NoErr
    /\ UNCHANGED <<input, output, args, jobs, cur, to_open, file_map, opens, result, stdout,
                   panic, started>>

\* A worker takes chunk i: file_map.get, the buffer, file.try_clone().
StartChunk(i) ==
    /\ pc = "par"
    /\ w[i].pc = "todo"
    /\ \E build \in Builds :
        LET bl == BufLen(cur.chunks[i], build)
        IN IF bl.panic
           THEN /\ pc' = "panicked"
                /\ panic' = [site |-> bl.site]
                /\ w' = w
           ELSE /\ w' = [w EXCEPT ![i] = [@ EXCEPT !.pc = "cloned", !.len = bl.len]]
                /\ UNCHANGED <<pc, panic>>
    /\ UNCHANGED <<input, output, args, jobs, cur, to_open, file_map, opens, saved_error,
                   result, stdout, started>>

\* file.seek(SeekFrom::Start(chunk.start_idx)) on the clone, which shares
\* the cursor of the file it was cloned from.
Seek(i) ==
    /\ pc = "par"
    /\ w[i].pc = "cloned"
    /\ file_map' = [file_map EXCEPT ![cur.chunks[i].filepath].pos = cur.chunks[i].start_idx]
    /\ w' = [w EXCEPT ![i].pc = "reading"]
    /\ UNCHANGED <<input, output, args, pc, jobs, cur, to_open, opens, saved_error, result,
                   stdout, panic, started>>

\* file.read_exact(&mut buffer): one read at the shared cursor (none when the
\* buffer is full already); with the buffer full, the decoding and the
\* hand-over of the chunk's result to the collect.
Read(i) ==
    /\ pc = "par"
    /\ w[i].pc = "reading"
    /\ LET path == cur.chunks[i].filepath
           need == w[i].len - Len(w[i].buf)
           got == IF need = 0 THEN <<>>
                  ELSE ReadSyscall(FS[path], file_map[path].pos, need)
           buf == w[i].buf \o got
           r == IF need > 0 /\ got = <<>> THEN Err(UnexpectedEof)
                ELSE DecodeChunk(buf, cur.data_type)
       IN /\ file_map' = [file_map EXCEPT ![path].pos = @ + Len(got)]
          /\ IF need > 0 /\ got # <<>> /\ Len(buf) < w[i].len
             THEN /\ w' = [w EXCEPT ![i].buf = buf]
                  /\ saved_error' = saved_error
             ELSE IF r.ok
             THEN /\ w' = [w EXCEPT ![i] = [@ EXCEPT !.pc = "ok", !.buf = buf, !.res = r.val]]
                  /\ saved_error' = saved_error
             ELSE /\ w' = [w EXCEPT ![i] = [@ EXCEPT !.pc = "err", !.buf = buf, !.res = r.err]]
                  /\ saved_error' = SaveError(saved_error, r.err)
    /\ UNCHANGED <<input, output, args, pc, jobs, cur, to_open, opens, result, stdout, panic, started>>

\* rayon: once an error is kept, a chunk not taken yet may be left out.
SkipChunk(i) ==
    /\ pc = "par"
    /\ w[i].pc = "todo"
    /\ saved_error # NoErr
    /\ w' = [w EXCEPT ![i].pc = "skipped"]
    /\ UNCHANGED <<input, output, args, pc, jobs, cur, to_open, file_map, opens, saved_error,
                   result, stdout, panic, started>>

\* load_arrays returns: the collect ends (the ? returns the kept error),
\* else the results are concatenated; the file map is dropped.
ReturnLoadArrays ==
    /\ pc = "par"
    /\ \A i \in 1..NChunks : Terminal(i)
    /\ result' = LoadArraysResult(cur.data_type, w, saved_error)
    /\ file_map' = EmptyMap
    /\ pc' = "loaded"
    /\ UNCHANGED <<input, output, args, jobs, cur, to_open, opens, w, saved_error, stdout,
                   panic, started>>

\* main: load_arrays(...)? returns the error from main, else the array is
\* reported and the loop goes on; the job's values are dropped.
MainHandle ==
    /\ pc = "loaded"
    /\ IF result.ok
       THEN /\ stdout' = stdout \o Report(result.val)
            /\ pc' = "loop"
            /\ result' = NoRes
       ELSE /\ stdout' = stdout
            /\ pc' = "exit_err"
            /\ result' = result
    /\ cur' = NoJob
    /\ w' = <<>>
    /\ saved_error' = NoErr
    /\ opens' = EmptyMap
    /\ UNCHANGED <<input, output, args, jobs, to_open, file_map, panic, started>>

Next ==
    \/ ParseArgs
    \/ ForNext
    \/ OpenFile
    \/ Dispatch
    \/ \E i \in 1..NChunks : StartChunk(i)
    \/ \E i \in 1..NChunks : Seek(i)
    \/ \E i \in 1..NChunks : Read(i)
    \/ \E i \in 1..NChunks : SkipChunk(i)
    \/ ReturnLoadArrays
    \/ MainHandle

Spec == Init /\ [][Next]_vars

\* ------------------------------------------------------------------------
\* The decoding of a filled buffer on its own
\* ------------------------------------------------------------------------

ByteSamples == {0, 1, 2, 127, 128, 200, 255}

\* Every single byte, and the buffers of up to MaxBytes sample bytes.
Buffers == {<<b>> : b \in 0..255} \cup SeqsUpTo(ByteSamples, MaxBytes)

\* A buffer read_exact has filled, before the match of load_chunk.
InitDecode ==
    /\ args = <<Prog>>
    /\ pc = "decode"
    /\ jobs = <<>>
    /\ cur = NoJob
    /\ to_open = <<>>
    /\ file_map = EmptyMap
    /\ opens = EmptyMap
    /\ w = <<>>
    /\ saved_error = NoErr
    /\ result = NoRes
    /\ stdout = <<>>
    /\ panic = NoPanic
    /\ started = 0
    /\ input \in Buffers
    /\ output = NoRes

\* load_chunk: the DataType::Int8 arm on the buffer.
DecodeInt8 ==
    /\ pc = "decode"
    /\ output' = DecodeChunk(input, "Int8")
    /\ pc' = "decoded"
    /\ UNCHANGED <<input, args, jobs, cur, to_open, file_map, opens, w,
                   saved_error, result, stdout, panic, started>>

SpecDecode == InitDecode /\ [][DecodeInt8]_vars

SpecJobs == InitJobs /\ [][Next]_vars

\* ------------------------------------------------------------------------
\* The report of a loaded job on its own
\* ------------------------------------------------------------------------

\* Chunks that load: "A", U+00E9, the empty string.
ReportChunkArgs ==
    { <<<<"a">>, <<"0">>, <<"1">>>>,
      <<<<"a">>, <<"1">>, <<"3">>>>,
      <<<<"a">>, <<"0">>, <<"0">>>> }

\* One job of up to MaxStrings chunks, each of which loads.
ReportArgs ==
    { <<Prog, t>> \o Flatten(cs) :
        t \in {T_int8, T_utf8}, cs \in SeqsUpTo(ReportChunkArgs, MaxStrings) }

\* main after load_arrays has returned the array of the job: every chunk
\* read its own bytes, the file map is dropped.
InitReport ==
    /\ args \in ReportArgs
    /\ pc = "loaded"
    /\ jobs = <<>>
    /\ cur = parse_args(args).jobs[1]
    /\ to_open = <<>>
    /\ file_map = EmptyMap
    /\ opens = [p \in DistinctPaths(cur.chunks) |-> 1]
    /\ w = [k \in 1..NChunks |->
             LET c == cur.chunks[k]
                 buf == Slice(FS[c.filepath], c.start_idx, c.end_idx)
             IN [pc |-> "ok", len |-> c.end_idx - c.start_idx, buf |-> buf,
                 res |-> DecodeChunk(buf, cur.data_type).val]]
    /\ saved_error = NoErr
    /\ result = LoadArraysResult(cur.data_type, w, saved_error)
    /\ stdout = <<>>
    /\ panic = NoPanic
    /\ started = 1
    /\ input = <<>>
    /\ output = NoRes

NextReport == MainHandle \/ ForNext

SpecReport == InitReport /\ [][NextReport]_vars

\* ------------------------------------------------------------------------
\* parse_args on its own
\* ------------------------------------------------------------------------

\* Arguments: the two type tokens, a path, an offset.
ParseTokens == {T_int8, T_utf8, <<"a">>, <<"1", "2">>}

\* The program name and up to MaxArgs arguments.
ParseArgLists == { <<Prog>> \o s : s \in SeqsUpTo(ParseTokens, MaxArgs) }

InitParse == args \in ParseArgLists /\ InitRest

SpecParse == InitParse /\ [][ParseArgs]_vars

\* ------------------------------------------------------------------------
\* What the claims speak of
\* ------------------------------------------------------------------------

RECURSIVE ReadExactAlone(_, _, _)
\* read_exact of need bytes from position pos with no other reader of the
\* file: the bytes, or the error of a read that returns none.
ReadExactAlone(bytes, pos, need) ==
    IF need = 0 THEN Ok(<<>>)
    ELSE LET got == ReadSyscall(bytes, pos, need)
         IN IF got = <<>> THEN Err(UnexpectedEof)
            ELSE LET rest == ReadExactAlone(bytes, pos + Len(got), need - Len(got))
                 IN IF rest.ok THEN Ok(got \o rest.val) ELSE rest

\* load_chunk run alone on a chunk with start_idx <= end_idx of an open file.
LoadChunkAlone(chunk, data_type) ==
    LET b == ReadExactAlone(FS[chunk.filepath], chunk.start_idx,
                            chunk.end_idx - chunk.start_idx)
    IN IF b.ok THEN DecodeChunk(b.val, data_type) ELSE b

RECURSIVE SequentialLoad(_, _)
\* The chunks decoded one after another in input order, concatenated.
SequentialLoad(chunks, data_type) ==
    IF chunks = <<>> THEN <<>>
    ELSE LoadChunkAlone(Head(chunks), data_type).val.vec
         \o SequentialLoad(Tail(chunks), data_type)

RECURSIVE SumLengths(_)
SumLengths(chunks) ==
    IF chunks = <<>> THEN 0
    ELSE (Head(chunks).end_idx - Head(chunks).start_idx) + SumLengths(Tail(chunks))

RECURSIVE SumOver(_, _)
SumOver(f, S) ==
    IF S = {} THEN 0
    ELSE LET x == CHOOSE y \in S : TRUE IN f[x] + SumOver(f, S \ {x})

\* File::open calls of the current job.
OpenCalls == SumOver(opens, DOMAIN opens)

Failed(i) == w[i].pc = "err"

\* The error names the chunk: its path and its byte range.
NamesChunk(e, chunk) ==
    /\ {"path", "start", "end"} \subseteq DOMAIN e
    /\ e.path = chunk.filepath
    /\ e.start = chunk.start_idx
    /\ e.end = chunk.end_idx

\* The command line holds a malformed job description: parse_args stops at an
\* unknown type token or a non-numeric offset, or a chunk's range is inverted.
MalformedJobSpec ==
    LET r == parse_args(args)
    IN \/ r.panic
       \/ \E j \in 1..Len(r.jobs) : \E k \in 1..Len(r.jobs[j].chunks) :
             r.jobs[j].chunks[k].end_idx < r.jobs[j].chunks[k].start_idx

\* ------------------------------------------------------------------------
\* Claims
\* ------------------------------------------------------------------------

\* C1: when load_arrays returns an array for a job whose chunks each load
\* when run alone, the array is the concatenation, in input order, of what
\* load_chunk gives for each chunk run alone.
C1_OrderPreserved ==
    (/\ pc = "loaded"
     /\ result.ok
     /\ \A k \in 1..NChunks : LoadChunkAlone(cur.chunks[k], cur.data_type).ok) =>
        result.val.vec = SequentialLoad(cur.chunks, cur.data_type)

\* C2: every load_chunk that has finished its read got exactly the bytes of
\* its file at [start_idx, end_idx): its buffer holds them, and its read fell
\* short only if the file ends before end_idx.
C2_IndependentReads ==
    pc \in {"par", "loaded"} =>
        \A i \in 1..NChunks :
            LET c == cur.chunks[i]
                bytes == FS[c.filepath]
            IN /\ (w[i].pc = "ok" \/ (Failed(i) /\ w[i].res.kind = "InvalidData"))
                      => w[i].buf = Slice(bytes, c.start_idx, c.end_idx)
               /\ (Failed(i) /\ w[i].res.kind = "UnexpectedEof")
                      => c.end_idx > Len(bytes)

\* C3: when load_arrays returns and a chunk has failed, it returns an error,
\* not an array, and the error is that of a chunk that failed.
C3_FailFast ==
    (pc = "loaded" /\ \E i \in 1..NChunks : Failed(i)) =>
        /\ ~result.ok
        /\ \E i \in 1..NChunks : Failed(i) /\ result.err = w[i].res

\* C3 witness: both chunks failed, with different errors, and the error
\* returned is the second chunk's.
C3_Witness ==
    /\ pc = "loaded"
    /\ NChunks = 2
    /\ Failed(1)
    /\ Failed(2)
    /\ w[1].res # w[2].res
    /\ ~result.ok
    /\ result.err = w[2].res

\* C4: the failure of a job does not end the run before the jobs after it
\* are loaded: when main ends with a job's error no job is left unloaded.
C4_JobsIndependent == pc = "exit_err" => jobs = <<>>

\* C5: a path that cannot be opened makes load_arrays return an error that
\* carries the path.
C5_OpenFailureIsError ==
    \A p \in DOMAIN opens :
        p \notin DOMAIN FS =>
            /\ pc = "loaded"
            /\ ~result.ok
            /\ result.err.kind = "FileOpenError"
            /\ "path" \in DOMAIN result.err
            /\ result.err.path = p

\* C6: the error load_arrays returns for a failed chunk names that chunk's
\* path and byte range.
C6_ErrorNamesChunk ==
    (pc = "loaded" /\ ~result.ok) =>
        \E i \in 1..NChunks : Failed(i) /\ NamesChunk(result.err, cur.chunks[i])

\* C7: with a malformed job description no file is opened, no chunk is
\* dispatched and no buffer length is computed from an inverted range.
C7_RejectedBeforeDispatch ==
    MalformedJobSpec =>
        /\ opens = EmptyMap
        /\ file_map = EmptyMap
        /\ w = <<>>
        /\ panic.site \notin {"attempt to subtract with overflow", "capacity overflow"}

\* C8 as stated: whenever load_arrays is past its opening of files, or was
\* ended by it, the File::open calls are as many as the distinct paths.
C8_OpenCallsEqualDistinct ==
    (cur # NoJob /\ pc \in {"par", "loaded", "panicked"}) =>
        OpenCalls = Cardinality(DistinctPaths(cur.chunks))

\* C8 amended: no path is opened more than once and only paths of the job
\* are opened; once all paths are open (the chunks are dispatched) each
\* distinct path was opened exactly once.
C8_OpenedOnce ==
    /\ \A p \in DOMAIN opens : opens[p] = 1 /\ p \in DistinctPaths(cur.chunks)
    /\ pc \in {"par", "loaded"} =>
          /\ DOMAIN opens = DistinctPaths(cur.chunks)
          /\ OpenCalls = Cardinality(DistinctPaths(cur.chunks))

\* C8 witness: two chunks name the same path, which was opened once.
C8_Witness ==
    /\ pc = "par"
    /\ NChunks = 2
    /\ cur.chunks[1].filepath = cur.chunks[2].filepath
    /\ OpenCalls = 1

\* C9: an int8 array returned has as many elements as the chunks' ranges
\* have bytes.
C9_Int8Length ==
    (pc = "loaded" /\ cur.data_type = "Int8" /\ result.ok) =>
        Len(result.val.vec) = SumLengths(cur.chunks)

\* C9 witness: an int8 job of two chunks of one and two bytes has returned.
C9_Witness ==
    /\ pc = "loaded"
    /\ cur.data_type = "Int8"
    /\ result.ok
    /\ NChunks = 2
    /\ cur.chunks[1].end_idx - cur.chunks[1].start_idx = 1
    /\ cur.chunks[2].end_idx - cur.chunks[2].start_idx = 2
    /\ Len(result.val.vec) = 3

\* C10: a utf8 array returned has one string per chunk.
C10_Utf8Count ==
    (pc = "loaded" /\ cur.data_type = "Utf8Str" /\ result.ok) =>
        Len(result.val.vec) = NChunks

\* C10 witness: a utf8 job of a zero-length chunk and a non-empty one has
\* returned two strings.
C10_Witness ==
    /\ pc = "loaded"
    /\ cur.data_type = "Utf8Str"
    /\ result.ok
    /\ NChunks = 2
    /\ cur.chunks[1].end_idx = cur.chunks[1].start_idx
    /\ cur.chunks[2].end_idx > cur.chunks[2].start_idx
    /\ result.val.vec = <<<<>>, <<195, 169>>>>

\* C11: the int8 decoding of a buffer gives one element per byte, in order;
\* each element is the value in -128..127 congruent to its byte modulo 256
\* (the same bit pattern), so a byte below 128 is kept and 200 becomes -56.
C11_Int8Decode ==
    pc = "decoded" =>
        /\ output.ok
        /\ output.val.tag = "Int8"
        /\ Len(output.val.vec) = Len(input)
        /\ \A k \in 1..Len(input) :
              LET v == output.val.vec[k] IN
              /\ v >= -128
              /\ v <= 127
              /\ (v - input[k]) % 256 = 0
        /\ input = <<200>> => output.val.vec = <<-56>>
        /\ input = <<1, 2, 255, 128>> => output.val.vec = <<1, 2, -1, -128>>

\* C11 witness: the bytes 01 02 FF 80 were decoded to 1, 2, -1, -128.
C11_Witness ==
    /\ pc = "decoded"
    /\ input = <<1, 2, 255, 128>>
    /\ output = Ok([tag |-> "Int8", vec |-> <<1, 2, -1, -128>>])

\* The chunks of the current job were handed to the parallel map.
Dispatched == cur # NoJob /\ NChunks > 0 /\ Len(w) = NChunks

\* C12: a dispatched job is pending, succeeded or failed, nothing else: the
\* process does not abort while the job's load is under way.
C12_SucceededOrFailed ==
    Dispatched =>
        \/ pc = "par"
        \/ pc = "loaded" /\ result.ok
        \/ pc = "loaded" /\ ~result.ok

RECURSIVE ConcatVecs(_)
\* The vecs of per-chunk results one after another, none left out.
ConcatVecs(rs) == IF rs = <<>> THEN <<>> ELSE Head(rs).vec \o ConcatVecs(Tail(rs))

\* C13: an array load_arrays returns has the variant of the job's declared
\* type, every per-chunk result has that variant too, and the array is the
\* concatenation of all of them: the variant filter drops none.
C13_VariantMatches ==
    (pc = "loaded" /\ result.ok) =>
        /\ result.val.tag = cur.data_type
        /\ \A k \in 1..NChunks : w[k].pc = "ok" /\ w[k].res.tag = cur.data_type
        /\ result.val.vec = ConcatVecs([k \in 1..NChunks |-> w[k].res])

C13_Witness ==
    /\ pc = "loaded"
    /\ result.ok
    /\ cur.data_type = "Utf8Str"
    /\ NChunks = 2
    /\ Len(result.val.vec) = 2

\* C14: a chunk whose end_idx exceeds the length of its file fails with the
\* short-read error of read_exact once load_chunk has run on it.
C14_PastEndFails ==
    \A i \in 1..Len(w) :
        ( /\ cur.chunks[i].end_idx > Len(FS[cur.chunks[i].filepath])
          /\ w[i].pc \in {"ok", "err"} )
        => (w[i].pc = "err" /\ w[i].res = UnexpectedEof)

\* Worker i holds the duplicate handle load_chunk made.
HoldsClone(i) == w[i].pc \in {"cloned", "reading"}

\* C15: file handles live exactly as long as the job.  A worker that holds a
\* duplicate works inside load_arrays on a file that is open; during the
\* opening the open files are those this job opened; once load_arrays has
\* returned, and so when the next job starts, no file and no duplicate is open.
C15_HandlesLiveWithJob ==
    /\ \A i \in 1..Len(w) :
          HoldsClone(i) => /\ pc \in {"par", "panicked"}
                           /\ cur.chunks[i].filepath \in DOMAIN file_map
    /\ pc = "open" => DOMAIN file_map = DOMAIN opens
    /\ pc \in {"start", "loop", "loaded", "exit_ok", "exit_err"} =>
          /\ file_map = EmptyMap
          /\ \A i \in 1..Len(w) : ~HoldsClone(i)

C15_Witness ==
    /\ started = 2
    /\ pc = "par"
    /\ stdout # <<>>
    /\ \E i \in 1..Len(w) : HoldsClone(i) /\ w[i].pc = "reading"
    /\ DOMAIN file_map = {<<"a">>}

\* C16: the report of a returned array.  For strings: the count, then the
\* first min(n, 5) strings with their 0-based index in array order, then
\* "..." exactly when n > 5.  For int8 values: the count and nothing else.
C16_ReportLines ==
    [][ (pc = "loaded" /\ result.ok) =>
          LET data == result.val.vec
              n == Len(data)
              m == IF n < 5 THEN n ELSE 5
              out == SubSeq(stdout', Len(stdout) + 1, Len(stdout'))
          IN /\ SubSeq(stdout', 1, Len(stdout)) = stdout
             /\ IF result.val.tag = "Int8"
                THEN out = <<[line |-> "Loaded int8 values", n |-> n]>>
                ELSE /\ Len(out) = 1 + m + (IF n > 5 THEN 1 ELSE 0)
                     /\ out[1] = [line |-> "Loaded strings", n |-> n]
                     /\ \A k \in 1..m :
                           out[1 + k] = [line |-> "String", i |-> k - 1, s |-> data[k]]
                     /\ (n > 5) <=> (out[Len(out)] = [line |-> "..."])
      ]_vars

C16_Witness ==
    /\ pc = "loop"
    /\ Len(stdout) = 7
    /\ stdout[1] = [line |-> "Loaded strings", n |-> 6]
    /\ stdout[2] = [line |-> "String", i |-> 0, s |-> <<65>>]
    /\ stdout[6] = [line |-> "String", i |-> 4, s |-> <<195, 169>>]
    /\ stdout[7] = [line |-> "..."]

\* C17: a job with zero chunks succeeds: load_arrays opens no file, no worker
\* reads, and the array returned is the empty array of the declared type.
C17_EmptyJob ==
    (cur # NoJob /\ NChunks = 0) =>
        /\ pc \in {"open", "par", "loaded"}
        /\ opens = EmptyMap
        /\ file_map = EmptyMap
        /\ w = <<>>
        /\ pc = "loaded" => result = Ok([tag |-> cur.data_type, vec |-> <<>>])

C17_Witness ==
    /\ pc = "loaded"
    /\ cur = [data_type |-> "Utf8Str", chunks |-> <<>>]
    /\ result = Ok([tag |-> "Utf8Str", vec |-> <<>>])
    /\ opens = EmptyMap

IsTypeToken(t) == t = T_int8 \/ t = T_utf8

\* What each argument of a job list stands for, in order: per job its type,
\* then per chunk its path, start and end.
ChunkFields(chunks) ==
    Flatten([k \in 1..Len(chunks) |->
                <<[f |-> "path", v |-> chunks[k].filepath],
                  [f |-> "offset", v |-> chunks[k].start_idx],
                  [f |-> "offset", v |-> chunks[k].end_idx]>>])

JobFields(js) ==
    Flatten([k \in 1..Len(js) |->
                <<[f |-> "type", v |-> js[k].data_type]>> \o ChunkFields(js[k].chunks)])

\* Argument t was consumed as field fld.
ConsumedAs(t, fld) ==
    IF fld.f = "type"
    THEN (t = T_int8 /\ fld.v = "Int8") \/ (t = T_utf8 /\ fld.v = "Utf8Str")
    ELSE IF fld.f = "path" THEN ~IsTypeToken(t) /\ t = fld.v
    ELSE ParseU64(t) = Ok(fld.v)

RECURSIVE TypeThenTriples(_)
\* Arguments of the shape (type (path start end)*)*, a path being no type
\* token.
TypeThenTriples(toks) ==
    IF toks = <<>> THEN TRUE
    ELSE IF IsTypeToken(Head(toks)) THEN TypeThenTriples(Tail(toks))
    ELSE Len(toks) >= 3 /\ TypeThenTriples(SubSeq(toks, 4, Len(toks)))

WellShaped(toks) == toks = <<>> \/ (IsTypeToken(Head(toks)) /\ TypeThenTriples(toks))

\* C18: parse_args ends on every argument list, by returning or by stopping
\* the program; when it returns, the jobs in order account for every
\* argument after the program name, each consumed as a type token or as one
\* field of a complete triple; an argument list not of that shape stops the
\* program.
C18_ParseLosesNothing ==
    /\ pc = "start" => parse_args(args).panic \in BOOLEAN
    /\ pc \in {"start", "loop", "panicked"}
    /\ pc = "loop" =>
          LET fields == JobFields(jobs)
              toks == Tail(args)
          IN /\ Len(fields) = Len(toks)
             /\ \A k \in 1..Len(toks) : ConsumedAs(toks[k], fields[k])
    /\ ~WellShaped(Tail(args)) => pc \in {"start", "panicked"}

C18_Witness ==
    /\ pc = "loop"
    /\ args = <<Prog, T_utf8, <<"a">>, <<"1", "2">>, <<"1", "2">>, T_int8>>
    /\ jobs = << [data_type |-> "Utf8Str",
                  chunks |-> <<[filepath |-> <<"a">>, start_idx |-> 12, end_idx |-> 12]>>],
                 [data_type |-> "Int8", chunks |-> <<>>] >>

\* The first line of a job's report.
IsHeader(l) == l.line \in {"Loaded int8 values", "Loaded strings"}

HeaderType(l) == IF l.line = "Loaded int8 values" THEN "Int8" ELSE "Utf8Str"

\* C19: jobs are loaded one after another in the order of the job list.
\* While job number `started` is being opened, read or handed back, and when
\* it has failed, exactly the jobs before it have been reported, in order;
\* the files that are open and the chunks being read are those of that job,
\* and the later jobs wait untouched.
C19_JobsInOrder ==
    (pc # "start" /\ ~parse_args(args).panic) =>
        LET all == parse_args(args).jobs
            reported == SelectSeq(stdout, IsHeader)
            done == IF pc \in {"loop", "exit_ok"} THEN started ELSE started - 1
        IN /\ started <= Len(all)
           /\ jobs = SubSeq(all, started + 1, Len(all))
           /\ Len(reported) = done
           /\ \A k \in 1..done : HeaderType(reported[k]) = all[k].data_type
           /\ pc \in {"open", "par", "loaded"} =>
                 /\ cur = all[started]
                 /\ DOMAIN file_map \subseteq DistinctPaths(cur.chunks)
                 /\ Len(w) \in {0, NChunks}
           /\ pc \in {"loop", "exit_ok", "exit_err"} => (cur = NoJob /\ w = <<>>)

C19_Witness ==
    /\ pc = "exit_err"
    /\ started = 2
    /\ Len(parse_args(args).jobs) = 2
    /\ Len(SelectSeq(stdout, IsHeader)) = 1
    /\ ~result.ok

====
